---- MODULE Spec2Model ----
(***************************************************************************)
(* Provider registry of agent-core (src/registry): the ProviderApiType     *)
(* string model, API-key resolution, the ProviderRegistry dispatch and     *)
(* the default catalogs with prefix detection.                             *)
(*                                                                         *)
(* A Rust String / &str is a sequence of one-character strings.            *)
(* Option<T> is a sequence of length at most one: None == <<>>,            *)
(* Some(x) == <<x>>.                                                       *)
(***************************************************************************)
EXTENDS Integers, Sequences, FiniteSets, TLC

VARIABLES custom_factories, env, latest, last, prior

vars == <<custom_factories, env, latest, last, prior>>

\* ------------------------------------------------------------------------
\* Bounds
\* ------------------------------------------------------------------------

\* longest run of blanks put in front of / behind a type string
MaxPad == 1

\* most characters cut off the end of a detection prefix
MaxCut == 1

\* most entries held by custom_factories
MaxFactories == 2

\* ------------------------------------------------------------------------
\* Option and strings
\* ------------------------------------------------------------------------

None == <<>>

Some(x) == <<x>>

UpperAlpha == <<"A", "B", "C", "D", "E", "F", "G", "H", "I", "J", "K", "L", "M", "N", "O", "P", "Q", "R", "S", "T", "U", "V", "W", "X", "Y", "Z">>

LowerAlpha == <<"a", "b", "c", "d", "e", "f", "g", "h", "i", "j", "k", "l", "m", "n", "o", "p", "q", "r", "s", "t", "u", "v", "w", "x", "y", "z">>

\* char::to_lowercase on the ASCII range
LowerChar(c) ==
    IF \E i \in 1..26 : UpperAlpha[i] = c
    THEN LowerAlpha[CHOOSE i \in 1..26 : UpperAlpha[i] = c]
    ELSE c

\* char::to_uppercase on the ASCII range
UpperChar(c) ==
    IF \E i \in 1..26 : LowerAlpha[i] = c
    THEN UpperAlpha[CHOOSE i \in 1..26 : LowerAlpha[i] = c]
    ELSE c

\* str::to_lowercase
to_lowercase(s) == [i \in 1..Len(s) |-> LowerChar(s[i])]

\* str::to_uppercase
to_uppercase(s) == [i \in 1..Len(s) |-> UpperChar(s[i])]

\* first letter upper-cased, the rest unchanged
Capitalize(s) == [i \in 1..Len(s) |-> IF i = 1 THEN UpperChar(s[i]) ELSE s[i]]

\* str::starts_with
starts_with(s, p) == Len(p) <= Len(s) /\ SubSeq(s, 1, Len(p)) = p

\* a run of n blanks
Blanks(n) == [i \in 1..n |-> " "]

S_anthropic == <<"a", "n", "t", "h", "r", "o", "p", "i", "c">>

S_openai == <<"o", "p", "e", "n", "a", "i">>

S_google == <<"g", "o", "o", "g", "l", "e">>

S_groq == <<"g", "r", "o", "q">>

S_mistral == <<"m", "i", "s", "t", "r", "a", "l">>

S_synapse == <<"s", "y", "n", "a", "p", "s", "e">>

S_test == <<"t", "e", "s", "t">>

S_some_provider == <<"s", "o", "m", "e", "-", "p", "r", "o", "v", "i", "d", "e", "r">>

\* ------------------------------------------------------------------------
\* types.rs : ProviderApiType
\* ------------------------------------------------------------------------

Anthropic == [variant |-> "Anthropic"]

OpenAi == [variant |-> "OpenAi"]

Google == [variant |-> "Google"]

Groq == [variant |-> "Groq"]

Mistral == [variant |-> "Mistral"]

Synapse == [variant |-> "Synapse"]

Custom(s) == [variant |-> "Custom", s |-> s]

NamedVariants == {Anthropic, OpenAi, Google, Groq, Mistral, Synapse}

\* impl Serialize for ProviderApiType: the string handed to serialize_str
serialize(v) ==
    CASE v = Anthropic -> S_anthropic
      [] v = OpenAi -> S_openai
      [] v = Google -> S_google
      [] v = Groq -> S_groq
      [] v = Mistral -> S_mistral
      [] v = Synapse -> S_synapse
      [] OTHER -> v.s

\* From<&str> that folds the case of its argument before matching
from_folding(s) ==
    CASE to_lowercase(s) = S_anthropic -> Anthropic
      [] to_lowercase(s) = S_openai -> OpenAi
      [] to_lowercase(s) = S_google -> Google
      [] to_lowercase(s) = S_groq -> Groq
      [] to_lowercase(s) = S_mistral -> Mistral
      [] to_lowercase(s) = S_synapse -> Synapse
      [] OTHER -> Custom(s)

\* From<&str> without the arm for "synapse"
from_without_synapse(s) ==
    CASE s = S_anthropic -> Anthropic
      [] s = S_openai -> OpenAi
      [] s = S_google -> Google
      [] s = S_groq -> Groq
      [] s = S_mistral -> Mistral
      [] OTHER -> Custom(s)

\* impl From<&str> for ProviderApiType
from(s) ==
    CASE s = S_anthropic -> Anthropic
      [] s = S_openai -> OpenAi
      [] s = S_google -> Google
      [] s = S_groq -> Groq
      [] s = S_mistral -> Mistral
      [] s = S_synapse -> Synapse
      [] OTHER -> Custom(s)

\* impl Deserialize for ProviderApiType: read a string, then From<&str>
deserialize(s) == from(s)

\* impl Display for ProviderApiType
fmt(v) ==
    CASE v = Anthropic -> S_anthropic
      [] v = OpenAi -> S_openai
      [] v = Google -> S_google
      [] v = Groq -> S_groq
      [] v = Mistral -> S_mistral
      [] v = Synapse -> S_synapse
      [] OTHER -> v.s

\* ToString, through Display
to_string(v) == fmt(v)

\* ------------------------------------------------------------------------
\* Inputs of the type operations
\* ------------------------------------------------------------------------

TypeStems == {S_anthropic, S_openai, S_google, S_groq, S_mistral, S_synapse, S_test, S_some_provider}

Casings(s) == {s, to_uppercase(s), Capitalize(s)}

TypeStrings ==
    {<<>>} \cup
    {Blanks(l) \o c \o Blanks(r) : l \in 0..MaxPad, r \in 0..MaxPad, c \in UNION {Casings(s) : s \in TypeStems}}

ApiTypeValues == NamedVariants \cup {Custom(s) : s \in TypeStrings}

\* ------------------------------------------------------------------------
\* types.rs : ProviderConfig, ModelInfo
\* ------------------------------------------------------------------------

\* struct ProviderConfig; keys, URLs and variable names are only compared
\* whole and are written as plain strings
ProviderConfig(api_type, base_url, api_key_env, api_key) ==
    [api_type |-> api_type, base_url |-> base_url, api_key_env |-> api_key_env, api_key |-> api_key]

\* struct ModelInfo
ModelInfo(id, provider) == [id |-> id, provider |-> provider]

\* ------------------------------------------------------------------------
\* std::collections::HashMap, as a set of <<key, value>> entries
\* ------------------------------------------------------------------------

HashMap_new == {}

\* HashMap::insert that keeps an older entry of the same key
insert_keeping_old(map, k, v) == map \cup {<<k, v>>}

\* HashMap::insert: the entry of an equal key is replaced
insert(map, k, v) == {e \in map : e[1] # k} \cup {<<k, v>>}

\* HashMap::keys
keys(map) == {e[1] : e \in map}

\* HashMap::contains_key
contains_key(map, k) == \E e \in map : e[1] = k

\* HashMap::get
get(map, k) == IF contains_key(map, k) THEN Some((CHOOSE e \in map : e[1] = k)[2]) ELSE None

\* HashMap::len
len(map) == Cardinality(map)

\* ------------------------------------------------------------------------
\* The process environment read by std::env::var
\* ------------------------------------------------------------------------

Unset == [state |-> "unset"]

\* a value that is not valid Unicode, written by its bytes
NotUnicode == [state |-> "not_unicode", value |-> "0xFF"]

Unicode(s) == [state |-> "unicode", value |-> s]

Ok(x) == [ok |-> TRUE, value |-> x]

Err(e) == [ok |-> FALSE, error |-> e]

\* std::env::var: Ok(value) for a variable that is set to valid Unicode,
\* Err(NotPresent) for one that is not set, Err(NotUnicode) otherwise
env_var(e, n) ==
    IF n \notin DOMAIN e \/ e[n] = Unset THEN Err("NotPresent")
    ELSE IF e[n] = NotUnicode THEN Err("NotUnicode")
    ELSE Ok(e[n].value)

\* ------------------------------------------------------------------------
\* State
\* ------------------------------------------------------------------------

\* custom_factories : the field of ProviderRegistry
\* env              : the process environment
\* latest           : history, the constructor most recently registered
\*                    under each type name
\* last             : the most recent call, its arguments and what it returned
\* prior            : history kept by SpecFresh only, the create_provider call
\*                    that the most recent change of the environment
\*                    followed, with the environment it ran in

EnvNames == {"ANTHROPIC_API_KEY"}

\* the canonical names of the kinds create_provider constructs itself
BuiltInNames == {S_anthropic, S_openai, S_google, S_groq, S_mistral}

\* the names a constructor gets registered under
TypeNames == BuiltInNames \cup {S_synapse, S_test}

\* ProviderRegistry::new
new == HashMap_new

Init ==
    /\ custom_factories = new
    /\ env = [n \in EnvNames |-> Unset]
    /\ latest = [t \in TypeNames |-> None]
    /\ last = [op |-> "new"]
    /\ prior = None

\* ------------------------------------------------------------------------
\* Calls of the type operations
\* ------------------------------------------------------------------------

CallFrom(s) ==
    /\ last' = [op |-> "from", arg |-> s, ret |-> from(s)]
    /\ UNCHANGED <<custom_factories, env, latest>>

CallDeserialize(s) ==
    /\ last' = [op |-> "deserialize", arg |-> s, ret |-> deserialize(s)]
    /\ UNCHANGED <<custom_factories, env, latest>>

CallSerialize(v) ==
    /\ last' = [op |-> "serialize", arg |-> v, ret |-> serialize(v)]
    /\ UNCHANGED <<custom_factories, env, latest>>

CallToString(v) ==
    /\ last' = [op |-> "to_string", arg |-> v, ret |-> to_string(v)]
    /\ UNCHANGED <<custom_factories, env, latest>>

NextTypes ==
    \/ \E s \in TypeStrings : CallFrom(s) /\ UNCHANGED prior
    \/ \E s \in TypeStrings : CallDeserialize(s) /\ UNCHANGED prior
    \/ \E v \in ApiTypeValues : CallSerialize(v) /\ UNCHANGED prior
    \/ \E v \in ApiTypeValues : CallToString(v) /\ UNCHANGED prior

SpecTypes == Init /\ [][NextTypes]_vars

\* ------------------------------------------------------------------------
\* Properties of the type operations
\* ------------------------------------------------------------------------

\* the six canonical names, each with its named variant
CanonicalTable ==
    << <<S_anthropic, Anthropic>>, <<S_openai, OpenAi>>, <<S_google, Google>>,
       <<S_groq, Groq>>, <<S_mistral, Mistral>>, <<S_synapse, Synapse>> >>

CanonicalNames == {CanonicalTable[i][1] : i \in 1..Len(CanonicalTable)}

NamedOf(s) == CanonicalTable[CHOOSE i \in 1..Len(CanonicalTable) : CanonicalTable[i][1] = s][2]

\* the string was rendered from v and parses back to v
RoundTrips ==
    /\ last.op = "to_string" => from(last.ret) = last.arg
    /\ last.op = "serialize" => deserialize(last.ret) = last.arg

\* C5 (as stated): for every ProviderApiType value v, every Custom(s) for an
\* arbitrary string s included, from_string(to_string(v)) = v.
C5_RoundTripEveryValue == last.op \in {"to_string", "serialize"} => RoundTrips

\* C5 (amended): for every named variant and every Custom(s) whose s is not
\* one of the six canonical names, parsing the serialized or displayed
\* string yields the identical value.
C5_RoundTripNonColliding ==
    (/\ last.op \in {"to_string", "serialize"}
     /\ (last.arg \in NamedVariants \/ last.arg.s \notin CanonicalNames))
    => RoundTrips

C5_Witness ==
    /\ last.op = "serialize"
    /\ last.arg = Custom(S_some_provider)
    /\ last.ret = S_some_provider

\* C6: from_string(s) is the named variant when s equals a canonical name
\* case-sensitively, otherwise the catch-all carrying s verbatim; in both
\* cases to_string(from_string(s)) = s.
C6_FromStringExact ==
    last.op \in {"from", "deserialize"} =>
        /\ last.arg \in CanonicalNames => last.ret = NamedOf(last.arg)
        /\ last.arg \notin CanonicalNames => last.ret = Custom(last.arg)
        /\ to_string(last.ret) = last.arg

C6_Witness ==
    /\ last.op = "from"
    /\ last.arg = Blanks(1) \o to_uppercase(S_anthropic)
    /\ last.ret = Custom(last.arg)

\* ------------------------------------------------------------------------
\* defaults.rs
\* ------------------------------------------------------------------------

S_ollama == <<"o", "l", "l", "a", "m", "a">>

S_lmstudio == <<"l", "m", "s", "t", "u", "d", "i", "o">>

S_openrouter == <<"o", "p", "e", "n", "r", "o", "u", "t", "e", "r">>

S_together == <<"t", "o", "g", "e", "t", "h", "e", "r">>

S_kimi == <<"k", "i", "m", "i">>

P_claude == <<"c", "l", "a", "u", "d", "e">>

P_gpt == <<"g", "p", "t">>

P_o1 == <<"o", "1">>

P_moonshot == <<"m", "o", "o", "n", "s", "h", "o", "t">>

P_gemini == <<"g", "e", "m", "i", "n", "i">>

P_llama == <<"l", "l", "a", "m", "a">>

P_mixtral == <<"m", "i", "x", "t", "r", "a", "l">>

P_codestral == <<"c", "o", "d", "e", "s", "t", "r", "a", "l">>

\* the providers.insert(..) calls of default_providers, in order
ProviderInserts ==
    << <<S_anthropic, ProviderConfig(Anthropic, None, Some("ANTHROPIC_API_KEY"), None)>>,
       <<S_openai, ProviderConfig(OpenAi, None, Some("OPENAI_API_KEY"), None)>>,
       <<S_ollama, ProviderConfig(OpenAi, Some("http://localhost:11434/v1"), None, None)>>,
       <<S_lmstudio, ProviderConfig(OpenAi, Some("http://localhost:1234/v1"), None, None)>>,
       <<S_groq, ProviderConfig(Groq, None, Some("GROQ_API_KEY"), None)>>,
       <<S_google, ProviderConfig(Google, None, Some("GOOGLE_API_KEY"), None)>>,
       <<S_mistral, ProviderConfig(Mistral, None, Some("MISTRAL_API_KEY"), None)>>,
       <<S_openrouter, ProviderConfig(OpenAi, Some("https://openrouter.ai/api/v1"), Some("OPENROUTER_API_KEY"), None)>>,
       <<S_together, ProviderConfig(OpenAi, Some("https://api.together.xyz/v1"), Some("TOGETHER_API_KEY"), None)>>,
       <<S_kimi, ProviderConfig(OpenAi, Some("https://api.moonshot.cn/v1"), Some("MOONSHOT_API_KEY"), None)>>,
       <<S_synapse, ProviderConfig(Synapse, Some("https://gateway.synapse.omni.dev"), Some("SYNAPSE_API_KEY"), None)>> >>

RECURSIVE insert_all(_, _, _)
\* the first n inserts applied to map, one after the other
insert_all(map, entries, n) ==
    IF n = 0 THEN map
    ELSE insert(insert_all(map, entries, n - 1), entries[n][1], entries[n][2])

\* fn default_providers
default_providers == insert_all(HashMap_new, ProviderInserts, Len(ProviderInserts))

\* the (id, provider) literals of default_models, in order
ModelLiterals ==
    << <<<<"c", "l", "a", "u", "d", "e", "-", "s", "o", "n", "n", "e", "t", "-", "4", "-", "2", "0", "2", "5", "0", "5", "1", "4">>, S_anthropic>>,
       <<<<"c", "l", "a", "u", "d", "e", "-", "o", "p", "u", "s", "-", "4", "-", "2", "0", "2", "5", "0", "5", "1", "4">>, S_anthropic>>,
       <<<<"c", "l", "a", "u", "d", "e", "-", "3", "-", "5", "-", "h", "a", "i", "k", "u", "-", "2", "0", "2", "4", "1", "0", "2", "2">>, S_anthropic>>,
       <<<<"g", "p", "t", "-", "4", "o">>, S_openai>>,
       <<<<"g", "p", "t", "-", "4", "-", "t", "u", "r", "b", "o">>, S_openai>>,
       <<<<"g", "p", "t", "-", "3", ".", "5", "-", "t", "u", "r", "b", "o">>, S_openai>>,
       <<<<"o", "1">>, S_openai>>,
       <<<<"o", "1", "-", "m", "i", "n", "i">>, S_openai>>,
       <<<<"l", "l", "a", "m", "a", "-", "3", ".", "3", "-", "7", "0", "b", "-", "v", "e", "r", "s", "a", "t", "i", "l", "e">>, S_groq>>,
       <<<<"l", "l", "a", "m", "a", "-", "3", ".", "1", "-", "8", "b", "-", "i", "n", "s", "t", "a", "n", "t">>, S_groq>>,
       <<<<"m", "i", "x", "t", "r", "a", "l", "-", "8", "x", "7", "b", "-", "3", "2", "7", "6", "8">>, S_groq>>,
       <<<<"g", "e", "m", "i", "n", "i", "-", "2", ".", "0", "-", "f", "l", "a", "s", "h">>, S_google>>,
       <<<<"g", "e", "m", "i", "n", "i", "-", "1", ".", "5", "-", "p", "r", "o">>, S_google>>,
       <<<<"m", "i", "s", "t", "r", "a", "l", "-", "l", "a", "r", "g", "e", "-", "l", "a", "t", "e", "s", "t">>, S_mistral>>,
       <<<<"c", "o", "d", "e", "s", "t", "r", "a", "l", "-", "l", "a", "t", "e", "s", "t">>, S_mistral>>,
       <<<<"m", "e", "t", "a", "-", "l", "l", "a", "m", "a", "/", "L", "l", "a", "m", "a", "-", "3", ".", "3", "-", "7", "0", "B", "-", "I", "n", "s", "t", "r", "u", "c", "t", "-", "T", "u", "r", "b", "o">>, S_together>>,
       <<<<"Q", "w", "e", "n", "/", "Q", "w", "e", "n", "2", ".", "5", "-", "C", "o", "d", "e", "r", "-", "3", "2", "B", "-", "I", "n", "s", "t", "r", "u", "c", "t">>, S_together>>,
       <<<<"k", "i", "m", "i", "-", "k", "2", ".", "5">>, S_kimi>>,
       <<<<"m", "o", "o", "n", "s", "h", "o", "t", "-", "v", "1", "-", "1", "2", "8", "k">>, S_kimi>>,
       <<<<"m", "o", "o", "n", "s", "h", "o", "t", "-", "v", "1", "-", "3", "2", "k">>, S_kimi>> >>

\* default_models whose moonshot entries name the vendor instead of the
\* catalog key
default_models_vendor_named ==
    [i \in 1..Len(ModelLiterals) |->
        ModelInfo(ModelLiterals[i][1],
                  IF starts_with(ModelLiterals[i][1], P_moonshot) THEN P_moonshot ELSE ModelLiterals[i][2])]

\* fn default_models
default_models == [i \in 1..Len(ModelLiterals) |-> ModelInfo(ModelLiterals[i][1], ModelLiterals[i][2])]

\* detect_provider_by_prefix without the lower-casing of the id
detect_case_sensitive(model_id) ==
    IF starts_with(model_id, P_claude) THEN Some(S_anthropic)
    ELSE IF starts_with(model_id, P_gpt) \/ starts_with(model_id, P_o1) THEN Some(S_openai)
    ELSE IF starts_with(model_id, S_kimi) \/ starts_with(model_id, P_moonshot) THEN Some(S_kimi)
    ELSE IF starts_with(model_id, P_gemini) THEN Some(S_google)
    ELSE IF starts_with(model_id, P_llama) \/ starts_with(model_id, P_mixtral) THEN Some(S_groq)
    ELSE IF starts_with(model_id, S_mistral) \/ starts_with(model_id, P_codestral) THEN Some(S_mistral)
    ELSE None

\* fn detect_provider_by_prefix
detect_provider_by_prefix(model_id) ==
    LET lower == to_lowercase(model_id) IN
    IF starts_with(lower, P_claude) THEN Some(S_anthropic)
    ELSE IF starts_with(lower, P_gpt) \/ starts_with(lower, P_o1) THEN Some(S_openai)
    ELSE IF starts_with(lower, S_kimi) \/ starts_with(lower, P_moonshot) THEN Some(S_kimi)
    ELSE IF starts_with(lower, P_gemini) THEN Some(S_google)
    ELSE IF starts_with(lower, P_llama) \/ starts_with(lower, P_mixtral) THEN Some(S_groq)
    ELSE IF starts_with(lower, S_mistral) \/ starts_with(lower, P_codestral) THEN Some(S_mistral)
    ELSE None

\* ------------------------------------------------------------------------
\* Inputs of prefix detection
\* ------------------------------------------------------------------------

\* the ids of the tests of detect_provider_by_prefix that are not catalog ids
TestIds ==
    { <<"c", "l", "a", "u", "d", "e", "-", "s", "o", "n", "n", "e", "t", "-", "4">>,
      <<"m", "o", "o", "n", "s", "h", "o", "t", "-", "v", "1">>,
      <<"l", "l", "a", "m", "a", "-", "3", ".", "3", "-", "7", "0", "b">>,
      <<"m", "i", "x", "t", "r", "a", "l", "-", "8", "x", "7", "b">>,
      <<"m", "i", "s", "t", "r", "a", "l", "-", "l", "a", "r", "g", "e">>,
      <<"u", "n", "k", "n", "o", "w", "n", "-", "m", "o", "d", "e", "l">> }

\* the literal prefixes tested by detect_provider_by_prefix
DetectPrefixes == {P_claude, P_gpt, P_o1, S_kimi, P_moonshot, P_gemini, P_llama, P_mixtral, S_mistral, P_codestral}

\* a prefix with up to MaxCut of its last characters cut off
CutPrefixes == {SubSeq(p, 1, Len(p) - n) : p \in DetectPrefixes, n \in 0..MaxCut}

ModelIdStems == {default_models[i].id : i \in 1..Len(default_models)} \cup TestIds \cup CutPrefixes \cup {<<>>}

ModelIds == UNION {Casings(s) : s \in ModelIdStems}

\* ------------------------------------------------------------------------
\* Calls of the catalog operations
\* ------------------------------------------------------------------------

CallDefaultProviders ==
    /\ last' = [op |-> "default_providers", ret |-> default_providers]
    /\ UNCHANGED <<custom_factories, env, latest>>

CallDefaultModels ==
    /\ last' = [op |-> "default_models", ret |-> default_models]
    /\ UNCHANGED <<custom_factories, env, latest>>

CallDetect(model_id) ==
    /\ last' = [op |-> "detect_provider_by_prefix", arg |-> model_id, ret |-> detect_provider_by_prefix(model_id)]
    /\ UNCHANGED <<custom_factories, env, latest>>

NextDefaults ==
    \/ CallDefaultProviders /\ UNCHANGED prior
    \/ CallDefaultModels /\ UNCHANGED prior
    \/ \E model_id \in ModelIds : CallDetect(model_id) /\ UNCHANGED prior

SpecDefaults == Init /\ [][NextDefaults]_vars

\* ------------------------------------------------------------------------
\* Properties of the catalogs and of prefix detection
\* ------------------------------------------------------------------------

\* the prefixes in the order they are tested, each with its provider
PrefixOrder ==
    << <<P_claude, S_anthropic>>, <<P_gpt, S_openai>>, <<P_o1, S_openai>>,
       <<S_kimi, S_kimi>>, <<P_moonshot, S_kimi>>, <<P_gemini, S_google>>,
       <<P_llama, S_groq>>, <<P_mixtral, S_groq>>,
       <<S_mistral, S_mistral>>, <<P_codestral, S_mistral>> >>

Matching(s) == {i \in 1..Len(PrefixOrder) : starts_with(s, PrefixOrder[i][1])}

\* provider of the first prefix of PrefixOrder that s starts with
FirstMatch(s) ==
    IF Matching(s) = {} THEN None
    ELSE Some(PrefixOrder[CHOOSE i \in Matching(s) : \A j \in Matching(s) : i <= j][2])

\* the two ids differ at most in the case of their letters
SameUpToCase(a, b) ==
    /\ Len(a) = Len(b)
    /\ \A i \in 1..Len(a) : a[i] = b[i] \/ UpperChar(a[i]) = b[i] \/ a[i] = UpperChar(b[i])

\* C9: detect_provider_by_prefix returns the provider of the first prefix,
\* in the fixed order, that the lower-cased id starts with, and no match
\* when none applies (the empty id included); ids that differ only in
\* letter case get the same result.
C9_DetectFirstPrefix ==
    last.op = "detect_provider_by_prefix" =>
        /\ last.ret = FirstMatch(to_lowercase(last.arg))
        /\ last.arg = <<>> => last.ret = None
        /\ \A other \in ModelIds :
              SameUpToCase(other, last.arg) => detect_provider_by_prefix(other) = last.ret

C9_Witness ==
    /\ last.op = "detect_provider_by_prefix"
    /\ last.arg = Capitalize(P_moonshot)
    /\ last.ret = Some(S_kimi)

ExpectedProviderNames ==
    {S_anthropic, S_openai, S_ollama, S_lmstudio, S_groq, S_google, S_mistral,
     S_openrouter, S_together, S_kimi, S_synapse}

\* C10: default_providers() has exactly the 11 listed names, default_models()
\* has exactly 20 entries, and every model's provider is a key of
\* default_providers(); every call returns this same data.
C10_Catalogs ==
    /\ last.op = "default_providers" =>
          /\ len(last.ret) = 11
          /\ keys(last.ret) = ExpectedProviderNames
          /\ Cardinality(ExpectedProviderNames) = 11
    /\ last.op = "default_models" =>
          /\ Len(last.ret) = 20
          /\ \A i \in 1..Len(last.ret) : contains_key(default_providers, last.ret[i].provider)

C10_Witness ==
    /\ last.op = "default_models"
    /\ Len(last.ret) = 20
    /\ last.ret[20].provider = S_kimi

\* ------------------------------------------------------------------------
\* factory.rs : resolve_api_key
\* ------------------------------------------------------------------------

\* resolve_api_key that skips a variable set to the empty string
resolve_api_key_nonempty(e, config) ==
    IF /\ config.api_key_env # None
       /\ env_var(e, config.api_key_env[1]).ok
       /\ env_var(e, config.api_key_env[1]).value # ""
    THEN Some(env_var(e, config.api_key_env[1]).value)
    ELSE config.api_key

\* resolve_api_key that keeps what it resolved for a config at an earlier
\* call and returns it again
resolve_api_key_cached(e, config) ==
    LET seen == IF prior # None /\ prior[1].config = config THEN prior[1].env ELSE e IN
    IF config.api_key_env # None /\ env_var(seen, config.api_key_env[1]).ok
    THEN Some(env_var(seen, config.api_key_env[1]).value)
    ELSE config.api_key

\* fn resolve_api_key
resolve_api_key(e, config) ==
    IF config.api_key_env # None /\ env_var(e, config.api_key_env[1]).ok
    THEN Some(env_var(e, config.api_key_env[1]).value)
    ELSE config.api_key

\* ------------------------------------------------------------------------
\* Collaborators of create_provider
\* ------------------------------------------------------------------------

\* anyhow!("API key not set for provider '{name}'")
ApiKeyNotSet(name) == [msg |-> "API key not set for provider", arg |-> name]

\* anyhow!("synapse provider not available - register a factory for 'synapse' ..")
SynapseNotAvailable == [msg |-> "synapse provider not available, register a factory for", arg |-> S_synapse]

\* anyhow!("no factory registered for custom provider type '{type_name}'")
NoFactory(type_name) == [msg |-> "no factory registered for custom provider type", arg |-> type_name]

\* a client constructor of crate::providers called with args, a record of
\* its arguments; the call is logged, and its own failure is passed
\* through by the ? operator
construct(ctor, args, ctor_ok) ==
    [ret |-> IF ctor_ok THEN Ok([provider |-> ctor, built_from |-> args])
             ELSE Err([msg |-> "client construction failed", arg |-> <<>>]),
     calls |-> << [callee |-> ctor, args |-> args] >>]

\* the registered constructors: "failing" is the closure of the test
\* registry_custom_factory, "building" returns a client made from its
\* arguments
Factories == {"failing", "building"}

\* a ProviderFactoryFn applied to (name, config)
apply_factory(factory, name, config) ==
    IF factory = "failing" THEN Err([msg |-> "test factory called", arg |-> <<>>])
    ELSE Ok([provider |-> factory, built_from |-> [name |-> name, config |-> config]])

\* factory(name, config): the call is logged and its result returned as is
invoke(factory, name, config) ==
    [ret |-> apply_factory(factory, name, config),
     calls |-> << [callee |-> factory, args |-> [name |-> name, config |-> config]] >>]

\* an error return that called nothing
fail(error) == [ret |-> Err(error), calls |-> <<>>]

\* ------------------------------------------------------------------------
\* factory.rs : ProviderRegistry
\* ------------------------------------------------------------------------

\* register_factory that leaves an entry already held for the name in place
register_factory_if_vacant(self, type_name, factory) ==
    IF contains_key(self, type_name) THEN self ELSE insert(self, type_name, factory)

\* ProviderRegistry::register_factory
register_factory(self, type_name, factory) == insert(self, type_name, factory)

\* the arm ProviderApiType::Anthropic of create_provider
anthropic_arm(e, name, config, ctor_ok) ==
    LET key == resolve_api_key(e, config) IN
    IF key = None THEN fail(ApiKeyNotSet(name))
    ELSE construct("AnthropicProvider::new", [key |-> key[1]], ctor_ok)

\* the arm ProviderApiType::OpenAi of create_provider: the key stays optional
openai_arm(e, name, config, ctor_ok) ==
    LET api_key == resolve_api_key(e, config)
        base_url == config.base_url
    IN construct("OpenAiProvider::with_config", [api_key |-> api_key, base_url |-> base_url], ctor_ok)

\* the arm ProviderApiType::Google of create_provider
google_arm(e, name, config, ctor_ok) ==
    LET key == resolve_api_key(e, config) IN
    IF key = None THEN fail(ApiKeyNotSet(name))
    ELSE construct("UnifiedProvider::google", [key |-> key[1]], ctor_ok)

\* the Groq arm with its missing-key check lost
groq_arm_unchecked(e, name, config, ctor_ok) ==
    construct("UnifiedProvider::groq", [api_key |-> resolve_api_key(e, config)], ctor_ok)

\* the arm ProviderApiType::Groq of create_provider
groq_arm(e, name, config, ctor_ok) ==
    LET key == resolve_api_key(e, config) IN
    IF key = None THEN fail(ApiKeyNotSet(name))
    ELSE construct("UnifiedProvider::groq", [key |-> key[1]], ctor_ok)

\* the arm ProviderApiType::Mistral of create_provider
mistral_arm(e, name, config, ctor_ok) ==
    LET key == resolve_api_key(e, config) IN
    IF key = None THEN fail(ApiKeyNotSet(name))
    ELSE construct("UnifiedProvider::mistral", [key |-> key[1]], ctor_ok)

\* the Synapse arm looking the constructor up under the provider name
synapse_arm_by_name(self, name, config) ==
    LET factory == get(self, name) IN
    IF factory = None THEN fail(SynapseNotAvailable)
    ELSE invoke(factory[1], name, config)

\* the arm ProviderApiType::Synapse of create_provider
synapse_arm(self, name, config) ==
    LET factory == get(self, S_synapse) IN
    IF factory = None THEN fail(SynapseNotAvailable)
    ELSE invoke(factory[1], name, config)

\* the Custom arm putting its own error in place of the constructor's
custom_arm_wrapping(self, type_name, name, config) ==
    LET factory == get(self, type_name) IN
    IF factory = None THEN fail(NoFactory(type_name))
    ELSE LET out == invoke(factory[1], name, config) IN
         IF out.ret.ok THEN out
         ELSE [ret |-> Err([msg |-> "failed to create custom provider", arg |-> type_name]),
               calls |-> out.calls]

\* the arm ProviderApiType::Custom(type_name) of create_provider
custom_arm(self, type_name, name, config) ==
    LET factory == get(self, type_name) IN
    IF factory = None THEN fail(NoFactory(type_name))
    ELSE invoke(factory[1], name, config)

\* create_provider that looks a built-in kind up in custom_factories first
create_provider_shadowable(self, e, name, config, ctor_ok) ==
    LET api_type == config.api_type IN
    IF api_type \in NamedVariants /\ contains_key(self, to_string(api_type))
    THEN invoke(get(self, to_string(api_type))[1], name, config)
    ELSE
    CASE api_type = Anthropic -> anthropic_arm(e, name, config, ctor_ok)
      [] api_type = OpenAi -> openai_arm(e, name, config, ctor_ok)
      [] api_type = Google -> google_arm(e, name, config, ctor_ok)
      [] api_type = Groq -> groq_arm(e, name, config, ctor_ok)
      [] api_type = Mistral -> mistral_arm(e, name, config, ctor_ok)
      [] api_type = Synapse -> synapse_arm(self, name, config)
      [] OTHER -> custom_arm(self, api_type.s, name, config)

\* ProviderRegistry::create_provider: the result and the constructors called
create_provider(self, e, name, config, ctor_ok) ==
    LET api_type == config.api_type IN
    CASE api_type = Anthropic -> anthropic_arm(e, name, config, ctor_ok)
      [] api_type = OpenAi -> openai_arm(e, name, config, ctor_ok)
      [] api_type = Google -> google_arm(e, name, config, ctor_ok)
      [] api_type = Groq -> groq_arm(e, name, config, ctor_ok)
      [] api_type = Mistral -> mistral_arm(e, name, config, ctor_ok)
      [] api_type = Synapse -> synapse_arm(self, name, config)
      [] OTHER -> custom_arm(self, api_type.s, name, config)

\* ------------------------------------------------------------------------
\* Inputs of the registry operations
\* ------------------------------------------------------------------------

\* the registrations made: either constructor under an extension name, the
\* building one under the name of a built-in kind
Registrations ==
    {<<type_name, factory>> \in TypeNames \X Factories :
        type_name \in BuiltInNames => factory = "building"}

\* the provider names given to create_provider
ProviderNames == {S_test, S_synapse}

EnvValues == {Unicode(""), Unicode("sk-env"), NotUnicode}

ConfigApiTypes == NamedVariants \cup {Custom(S_test), Custom(S_anthropic)}

KeyedConfigs(api_type, base_url) ==
    {ProviderConfig(api_type, base_url, api_key_env, api_key) :
        api_key_env \in {None} \cup {Some(n) : n \in EnvNames},
        api_key \in {None, Some("sk-direct")}}

\* every API type without a base URL, and the two kinds whose default
\* entries carry one with a base URL as well
Configs ==
    UNION {KeyedConfigs(api_type, None) : api_type \in ConfigApiTypes}
    \cup KeyedConfigs(OpenAi, Some("http://localhost:11434/v1"))
    \cup KeyedConfigs(Synapse, Some("https://gateway.synapse.omni.dev"))

\* ------------------------------------------------------------------------
\* Calls of the registry operations and changes of the environment
\* ------------------------------------------------------------------------

RegisterFactory(type_name, factory) ==
    /\ len(custom_factories) < MaxFactories \/ contains_key(custom_factories, type_name)
    /\ custom_factories' = register_factory(custom_factories, type_name, factory)
    /\ latest' = [latest EXCEPT ![type_name] = Some(factory)]
    /\ last' = [op |-> "register_factory", type_name |-> type_name, factory |-> factory,
                replaced |-> get(custom_factories, type_name)]
    /\ UNCHANGED env

CreateProvider(name, config, ctor_ok) ==
    LET out == create_provider(custom_factories, env, name, config, ctor_ok) IN
    /\ last' = [op |-> "create_provider", name |-> name, config |-> config,
                ret |-> out.ret, calls |-> out.calls]
    /\ UNCHANGED <<custom_factories, env, latest>>

ResolveApiKey(config) ==
    /\ last' = [op |-> "resolve_api_key", config |-> config, ret |-> resolve_api_key(env, config)]
    /\ UNCHANGED <<custom_factories, env, latest>>

\* std::env::set_var by the embedding process
SetVar(n, v) ==
    /\ env' = [env EXCEPT ![n] = v]
    /\ last' = [op |-> "set_var"]
    /\ UNCHANGED <<custom_factories, latest>>

\* std::env::remove_var by the embedding process
RemoveVar(n) ==
    /\ env' = [env EXCEPT ![n] = Unset]
    /\ last' = [op |-> "remove_var"]
    /\ UNCHANGED <<custom_factories, latest>>

NextRegistry ==
    \/ \E r \in Registrations : RegisterFactory(r[1], r[2]) /\ UNCHANGED prior
    \/ \E name \in ProviderNames, config \in Configs, ctor_ok \in BOOLEAN :
          CreateProvider(name, config, ctor_ok) /\ UNCHANGED prior
    \/ \E n \in EnvNames, v \in EnvValues : SetVar(n, v) /\ UNCHANGED prior
    \/ \E n \in EnvNames : RemoveVar(n) /\ UNCHANGED prior

Spec == Init /\ [][NextRegistry]_vars

NextKeys ==
    \/ \E config \in Configs : ResolveApiKey(config) /\ UNCHANGED prior
    \/ \E n \in EnvNames, v \in EnvValues : SetVar(n, v) /\ UNCHANGED prior
    \/ \E n \in EnvNames : RemoveVar(n) /\ UNCHANGED prior

SpecKeys == Init /\ [][NextKeys]_vars

\* the configs of the five kinds that create_provider constructs itself
BuiltInConfigs == UNION {KeyedConfigs(api_type, None) : api_type \in {Anthropic, OpenAi, Google, Groq, Mistral}}

\* a change of the environment puts the create_provider call it follows,
\* if it follows one, into prior
Remember ==
    prior' = IF last.op = "create_provider"
             THEN Some([name |-> last.name, config |-> last.config, env |-> env])
             ELSE prior

\* create_provider calls interleaved with changes of the environment
NextFresh ==
    \/ \E name \in ProviderNames, config \in BuiltInConfigs, ctor_ok \in BOOLEAN :
          CreateProvider(name, config, ctor_ok) /\ UNCHANGED prior
    \/ \E n \in EnvNames, v \in EnvValues : SetVar(n, v) /\ Remember
    \/ \E n \in EnvNames : RemoveVar(n) /\ Remember

SpecFresh == Init /\ [][NextFresh]_vars

\* ------------------------------------------------------------------------
\* Properties of key resolution
\* ------------------------------------------------------------------------

\* the variable named by api_key_env is in the environment, whatever it holds
NamedVarPresent(config) ==
    /\ config.api_key_env # None
    /\ config.api_key_env[1] \in DOMAIN env
    /\ env[config.api_key_env[1]] # Unset

\* the variable named by api_key_env holds valid Unicode (the empty string
\* included)
NamedVarReadable(config) ==
    /\ NamedVarPresent(config)
    /\ env[config.api_key_env[1]].state = "unicode"

\* C4 (as stated): a variable named by api_key_env that is present in the
\* environment decides the result, whatever it holds; otherwise api_key
\* does; otherwise there is no key.
C4_PresentVarWins ==
    last.op = "resolve_api_key" =>
        IF NamedVarPresent(last.config)
        THEN last.ret = Some(env[last.config.api_key_env[1]].value)
        ELSE last.ret = last.config.api_key

\* C4 (amended): a variable named by api_key_env that is present with a
\* valid Unicode value (the empty string included) decides the result
\* regardless of api_key; otherwise, a variable that is absent or holds
\* invalid Unicode included, the result is api_key when it is set and no
\* key when it is not. The environment is not modified.
C4_ReadableVarWins ==
    /\ [](last.op = "resolve_api_key" =>
            IF NamedVarReadable(last.config)
            THEN last.ret = Some(env[last.config.api_key_env[1]].value)
            ELSE last.ret = last.config.api_key)
    /\ [][last'.op = "resolve_api_key" => env' = env]_vars

C4_Witness ==
    /\ last.op = "resolve_api_key"
    /\ last.config.api_key_env = Some("ANTHROPIC_API_KEY")
    /\ last.config.api_key = Some("sk-direct")
    /\ env["ANTHROPIC_API_KEY"] = Unicode("")
    /\ last.ret = Some("")

\* ------------------------------------------------------------------------
\* Properties of the registry
\* ------------------------------------------------------------------------

\* the error of a built-in kind that found no key, naming the provider
MissingCredential(name) == [msg |-> "API key not set for provider", arg |-> name]

\* the error of the catch-all kind whose tag has no constructor
NoFactoryRegistered(tag) == [msg |-> "no factory registered for custom provider type", arg |-> tag]

\* the call create_provider makes to the constructor f
FactoryCall(f, name, config) == [callee |-> f, args |-> [name |-> name, config |-> config]]

\* the last call was create_provider for a config of one of these kinds
\* and no key resolves for it
CreatedWithoutKey(kinds) ==
    /\ last.op = "create_provider"
    /\ last.config.api_type \in kinds
    /\ resolve_api_key(env, last.config) = None

FailedMissingCredential ==
    /\ last.ret = Err(MissingCredential(last.name))
    /\ last.calls = <<>>

\* C1 (as stated): for anthropic, openai, google, groq and mistral,
\* create_provider with no resolvable key returns MissingCredential naming
\* the provider and constructs no client.
C1_MissingCredentialFiveKinds ==
    CreatedWithoutKey({Anthropic, OpenAi, Google, Groq, Mistral}) => FailedMissingCredential

\* C1 (amended): for anthropic, google, groq and mistral, create_provider
\* with no resolvable key returns MissingCredential naming the provider
\* and constructs no client; for openai the key is optional, and the
\* OpenAI client constructor is called with no key and the base URL.
C1_MissingCredentialKeyedKinds ==
    /\ CreatedWithoutKey({Anthropic, Google, Groq, Mistral}) => FailedMissingCredential
    /\ CreatedWithoutKey({OpenAi}) =>
          /\ last.calls = << [callee |-> "OpenAiProvider::with_config",
                              args |-> [api_key |-> None, base_url |-> last.config.base_url]] >>
          /\ last.ret # Err(MissingCredential(last.name))

C1_Witness ==
    /\ CreatedWithoutKey({Groq})
    /\ last.config.api_key_env = Some("ANTHROPIC_API_KEY")
    /\ last.name = S_test
    /\ last.ret = Err(MissingCredential(S_test))

\* the last call was create_provider for the catch-all kind
CreatedCustom == last.op = "create_provider" /\ last.config.api_type.variant = "Custom"

\* C2: for the catch-all kind with tag t, create_provider fails with
\* NoFactoryRegistered naming t and calls nothing when no constructor is
\* registered under t; otherwise it calls the constructor most recently
\* registered under t exactly once with the same (name, config) and
\* returns that constructor's result unchanged.
C2_CustomDispatch ==
    CreatedCustom =>
        LET t == last.config.api_type.s IN
        IF latest[t] = None
        THEN /\ last.ret = Err(NoFactoryRegistered(t))
             /\ last.calls = <<>>
        ELSE /\ last.calls = << FactoryCall(latest[t][1], last.name, last.config) >>
             /\ last.ret = apply_factory(latest[t][1], last.name, last.config)

C2_Witness ==
    /\ CreatedCustom
    /\ last.config.api_type = Custom(S_test)
    /\ last.name = S_synapse
    /\ latest[S_test] = Some("failing")
    /\ ~last.ret.ok
    /\ last.ret.error.msg = "test factory called"

\* the last call was create_provider for the managed-gateway kind
CreatedSynapse == last.op = "create_provider" /\ last.config.api_type = Synapse

\* C3: for the synapse kind create_provider looks up only the tag
\* "synapse": with nothing registered under it, it fails saying that a
\* factory for 'synapse' must be registered; otherwise it calls that
\* constructor with (name, config) and returns its result unchanged.
\* The provider name, the other registrations and the key play no part.
C3_SynapseDispatch ==
    CreatedSynapse =>
        IF latest[S_synapse] = None
        THEN /\ last.ret = Err([msg |-> "synapse provider not available, register a factory for",
                                arg |-> S_synapse])
             /\ last.calls = <<>>
        ELSE /\ last.calls = << FactoryCall(latest[S_synapse][1], last.name, last.config) >>
             /\ last.ret = apply_factory(latest[S_synapse][1], last.name, last.config)

C3_Witness ==
    /\ CreatedSynapse
    /\ last.name = S_test
    /\ latest[S_test] # None
    /\ latest[S_synapse] = Some("building")
    /\ resolve_api_key(env, last.config) = None
    /\ last.ret.ok

NoDuplicateKeys == \A a \in custom_factories, b \in custom_factories : a[1] = b[1] => a = b

\* C7 (as stated): custom_factories has no duplicate keys and no key equal
\* to the canonical name of a built-in API kind.
C7_NoDuplicateNoBuiltIn ==
    /\ NoDuplicateKeys
    /\ keys(custom_factories) \cap BuiltInNames = {}

\* C7 (amended): custom_factories has no duplicate keys, and its keys are
\* exactly the type names registered so far, the canonical names of
\* built-in kinds among them when a caller registered one.
C7_NoDuplicateKeys ==
    /\ NoDuplicateKeys
    /\ keys(custom_factories) = {t \in TypeNames : latest[t] # None}

C7_Witness ==
    /\ last.op = "register_factory"
    /\ last.type_name = S_test
    /\ last.replaced = Some("failing")
    /\ last.factory = "building"
    /\ contains_key(custom_factories, S_anthropic)
    /\ len(custom_factories) = 2

\* the last call was create_provider for one of the five kinds that
\* create_provider constructs itself
CreatedBuiltIn ==
    /\ last.op = "create_provider"
    /\ last.config.api_type \in {Anthropic, OpenAi, Google, Groq, Mistral}

\* C8: a constructor registered under the canonical name of a built-in
\* kind is never called for a config of that kind, and create_provider
\* returns what it returns on a registry without any registration.
C8_ShadowingHasNoEffect ==
    CreatedBuiltIn =>
        /\ \A i \in 1..Len(last.calls) : last.calls[i].callee \notin Factories
        /\ \E ctor_ok \in BOOLEAN :
              create_provider(new, env, last.name, last.config, ctor_ok)
                  = [ret |-> last.ret, calls |-> last.calls]

C8_Witness ==
    /\ CreatedBuiltIn
    /\ last.config.api_type = Mistral
    /\ latest[S_mistral] = Some("building")
    /\ contains_key(custom_factories, S_mistral)
    /\ last.ret = Err(MissingCredential(last.name))

\* ------------------------------------------------------------------------
\* Properties of create_provider under a changing environment
\* ------------------------------------------------------------------------

\* the key that the environment e holds for config at this moment
KeyIn(e, config) ==
    IF /\ config.api_key_env # None
       /\ config.api_key_env[1] \in DOMAIN e
       /\ e[config.api_key_env[1]].state = "unicode"
    THEN Some(e[config.api_key_env[1]].value)
    ELSE config.api_key

\* C11: key resolution is done anew at every create_provider call: whether
\* the call fails with MissingCredential and which key the client
\* constructor receives follow from the config and the environment at the
\* moment of the call alone, whatever an earlier call resolved.
C11_KeyResolvedAtEachCall ==
    CreatedBuiltIn =>
        LET key == KeyIn(env, last.config) IN
        IF last.config.api_type = OpenAi
        THEN /\ Len(last.calls) = 1
             /\ last.calls[1].args.api_key = key
        ELSE IF key = None
        THEN FailedMissingCredential
        ELSE /\ Len(last.calls) = 1
             /\ last.calls[1].args = [key |-> key[1]]
             /\ last.ret # Err(MissingCredential(last.name))

\* the same call failed for want of a key before the variable was set and
\* now hands the variable's value to the client
C11_Witness ==
    /\ CreatedBuiltIn
    /\ prior # None
    /\ prior[1].name = last.name
    /\ prior[1].config = last.config
    /\ last.config.api_type = Anthropic
    /\ KeyIn(prior[1].env, last.config) = None
    /\ KeyIn(env, last.config) = Some("sk-env")
    /\ last.ret.ok
    /\ last.calls[1].args.key = "sk-env"

\* ------------------------------------------------------------------------
\* Properties of the mapping over its lifetime
\* ------------------------------------------------------------------------

\* one entry per type name registered so far, holding the constructor
\* registered last under it
LastWriteWins == {<<t, latest[t][1]>> : t \in {u \in TypeNames : latest[u] # None}}

\* C12: the registry starts with an empty mapping; after any sequence of
\* register_factory and create_provider calls the mapping is the
\* last-write-wins map of the registrations made so far; create_provider,
\* whether it succeeds or fails, leaves the mapping unchanged.
C12_LastWriteWinsMapping ==
    /\ custom_factories = {}
    /\ [](custom_factories = LastWriteWins)
    /\ [][last'.op = "create_provider" => custom_factories' = custom_factories]_vars

C12_Witness ==
    /\ last.op = "register_factory"
    /\ last.type_name = S_synapse
    /\ last.replaced = Some("building")
    /\ last.factory = "failing"
    /\ custom_factories = {<<S_synapse, "failing">>, <<S_test, "building">>}

====
